---- MODULE Spec2Model ----
(***************************************************************************)
(* Message bus (MessageRouter), task store (Task, TaskManager) and task    *)
(* execution coordinator (ExecutorAgent) of NexAItools.                    *)
(*                                                                         *)
(* Python objects are modelled by value: a Task object is the record       *)
(* task[id] (one object per task id, ids come from uuid4 and are never     *)
(* reused), TaskManager.tasks is the set of ids whose object it holds,     *)
(* ExecutorAgent.active_tasks is a function from the active ids.           *)
(* Python's None is the string "None"; a value that may be a string, a     *)
(* mapping or None is wrapped in a record (NoValue, Val, Map, ...).        *)
(***************************************************************************)
EXTENDS Integers, Sequences, FiniteSets, TLC

VARIABLES
    subscribers,      \* MessageRouter.subscribers: dict id -> list of callbacks, in insertion order
    message_history,  \* MessageRouter.message_history
    published,        \* number of Message objects created so far (a message's id is its number)
    stack,            \* publish() calls in progress on the publishing thread, innermost last
    task,             \* the Task objects: [id -> Task record]
    tasks,            \* TaskManager.tasks: ids stored
    active_tasks,     \* ExecutorAgent.active_tasks: [id -> [subtasks |-> [agent -> entry]]]
    bg_exec,          \* ids whose execute_task runs as a background task and is inside initiate_chat
    agents,           \* AgentManager.agents: [id -> agent]
    last_unsubscribe, \* the last unsubscribe call SpecUnsub made: its arguments and the
                      \* number of callbacks it found under the id (not program state)
    wire              \* a Message a caller holds, the dict to_dict made of it and the
                      \* Message from_dict made of that dict

vars == <<subscribers, message_history, published, stack,
          task, tasks, active_tasks, bg_exec, agents, last_unsubscribe, wire>>

busVars == <<subscribers, message_history, published, stack>>
taskVars == <<task, tasks, active_tasks, bg_exec>>
dirVars == <<agents>>
obsVars == <<last_unsubscribe, wire>>

-----------------------------------------------------------------------------
(* Bounds of the model *)

MaxPublishes == 2        \* messages created in Spec
MaxBusPublishes == 2     \* messages created in SpecBus
MaxHistPublishes == 1003 \* messages created in SpecHist
MaxDepth == 2            \* publish() calls nested inside one another
MaxRegs == 2             \* callback registrations held by the bus at a time in SpecBus
MaxExecRegs == 1         \* times the executor registers with the router
MaxHistRegs == 1         \* callback registrations in SpecHist
MaxUpdates == 3          \* update_status calls on one task
MaxDirRegs == 2          \* callback registrations held by the bus at a time in SpecDir
MaxDirPublishes == 1     \* messages created in SpecDir
MaxUnsubRegs == 3        \* callback registrations held by the bus at a time in SpecUnsub
MaxUnsubPublishes == 1   \* messages created in SpecUnsub
MaxQueryPublishes == 5   \* messages created in SpecQuery
MaxMutRegs == 2          \* callback registrations held by the bus at a time in SpecMut
MaxMutPublishes == 1     \* messages created in SpecMut
MaxChildren == 2         \* length of a task's list of subtasks
MaxStoreUpdates == 1     \* status writes on one task in SpecStore
MaxTreeWrites == 2       \* status writes on all tasks together in SpecTree
MaxLatePublishes == 1    \* messages created in SpecLate
MaxRepeatPublishes == 3  \* messages created in SpecRepeat
MaxAgainPublishes == 2   \* messages created in SpecAgain

(* Program constant *)
max_history_size == 1000

-----------------------------------------------------------------------------
(* Values *)

None == "None"
Truthy(x) == x # None /\ x # ""

TaskIds == {"t1", "t2"}
TreeTaskIds == {"t1", "t2", "t3"}   \* the tasks of SpecStore and SpecTree
OrchTaskIds == {"t1"}      \* the tasks of Spec and SpecTask
ExecutorId == "exec"
Agents == {"a1", "a2"}
BusIds == {"a1", "a2"}
Results == {"r1", "r2"}
Errors == {"e1"}

\* callbacks: three plain functions and the executor's bound method handle_message
CbOk == "cb_ok"
CbFault == "cb_fault"
CbPub == "cb_pub"
ExecCb == "handle_message"
PlainCallbacks == {CbOk, CbFault, CbPub}

NoValue == [kind |-> "none"]
Val(v) == [kind |-> "value", v |-> v]
Map(m) == [kind |-> "map", m |-> m]
SubtaskFailed(sender, e) == [kind |-> "subtask_failed", sender |-> sender, error |-> e]
NoFinalResult == [kind |-> "no_final_result"]
ExecutionError(e) == [kind |-> "error_during_execution", e |-> e]

NoContent == [task_id |-> None, payload |-> None]

\* Message.__init__, lines 26-44: message ids and correlation ids are numbers,
\* a correlation id that is not given (None) is NoCorrelation
NoCorrelation == 0
Message(id, sender, recipient, type, content, correlation) ==
    [message_id |-> id,
     sender_id |-> sender,
     recipient_id |-> recipient,
     message_type |-> type,
     content |-> content,
     correlation_id |-> IF correlation # NoCorrelation THEN correlation ELSE id]

-----------------------------------------------------------------------------
(* MessageRouter: the subscriber table, a sequence of [id, cbs] in the     *)
(* insertion order of the dict's keys                                      *)

SubIds(s) == {s[i].id : i \in DOMAIN s}
SubIndex(s, id) == CHOOSE i \in DOMAIN s : s[i].id = id
SubList(s, id) == s[SubIndex(s, id)].cbs
SubKeys(s) == [i \in DOMAIN s |-> s[i].id]

RECURSIVE SeqSum(_)
SeqSum(q) == IF q = <<>> THEN 0 ELSE Head(q) + SeqSum(Tail(q))
Registrations(s) == SeqSum([i \in DOMAIN s |-> Len(s[i].cbs)])

RemoveAt(q, i) == [j \in 1..(Len(q) - 1) |-> IF j < i THEN q[j] ELSE q[j + 1]]

subscribe(s, id, cb) ==
    IF id \in SubIds(s)
    THEN [s EXCEPT ![SubIndex(s, id)].cbs = Append(@, cb)]
    ELSE Append(s, [id |-> id, cbs |-> <<cb>>])

UnsubscribeAllDropsLast(s, id, cb) ==
    IF id \notin SubIds(s) THEN s
    ELSE IF Truthy(cb)
         THEN LET kept == SelectSeq(SubList(s, id), LAMBDA c : c # cb)
              IN  IF kept = <<>>
                  THEN RemoveAt(s, SubIndex(s, id))
                  ELSE [s EXCEPT ![SubIndex(s, id)].cbs = kept]
         ELSE IF Len(SubList(s, id)) = 1
              THEN RemoveAt(s, SubIndex(s, id))
              ELSE [s EXCEPT ![SubIndex(s, id)].cbs = SubSeq(@, 1, Len(@) - 1)]
unsubscribe(s, id, cb) ==
    IF id \notin SubIds(s) THEN s
    ELSE IF Truthy(cb)
         THEN LET kept == SelectSeq(SubList(s, id), LAMBDA c : c # cb)
              IN  IF kept = <<>>
                  THEN RemoveAt(s, SubIndex(s, id))
                  ELSE [s EXCEPT ![SubIndex(s, id)].cbs = kept]
         ELSE RemoveAt(s, SubIndex(s, id))

\* the history after publish() has stored a message
HistoryAppendKeepAll(h, m) == Append(h, m)
HistoryAppendDropNewest(h, m) ==
    IF Len(h) + 1 > max_history_size THEN h ELSE Append(h, m)
HistoryAppend(h, m) ==
    LET appended == Append(h, m)
    IN  IF Len(appended) > max_history_size THEN Tail(appended) ELSE appended

\* the recipients a publish() iterates over
Recipients(m, s) ==
    IF Truthy(m.recipient_id) THEN <<m.recipient_id>> ELSE SubKeys(s)

\* get_message_history(limit), lines 146-158; the Optional[int] limit is <<>>
\* for None and <<n>> for the integer n, and lst[-n:] is computed as Python does
NoLimit == <<>>
Limit(n) == <<n>>
get_message_history(limit) ==
    IF limit # NoLimit /\ limit # Limit(0)
    THEN LET n == Len(message_history)
             k == limit[1]
             from == IF k > 0
                     THEN (IF k >= n THEN 1 ELSE n - k + 1)
                     ELSE (IF -k >= n THEN n + 1 ELSE -k + 1)
         IN  SubSeq(message_history, from, n)
    ELSE message_history

\* get_messages_by_correlation(correlation_id), lines 160-170
ByCorrelationOnMessageId(c) ==
    SelectSeq(message_history, LAMBDA m : m.message_id = c)
get_messages_by_correlation(c) ==
    SelectSeq(message_history, LAMBDA m : m.correlation_id = c)

-----------------------------------------------------------------------------
(* A publish() call in progress.  recipients is the list computed at lines *)
(* 96-101; ri and ci say where the two for loops stand (cbs[ci] of         *)
(* recipient ri is called next); cbs is the list object the inner loop     *)
(* iterates and live says whether it still is subscribers[recipient]       *)
(* (subscribe appends to that object in place, unsubscribe rebinds or      *)
(* deletes the dict entry and leaves the object as it was).                *)
(* executing is the task whose execute_task, called by handle_message for  *)
(* a TASK message, is inside initiate_chat.  start, invoked, unsub and     *)
(* raised record what the call did, nested what the publish() calls made   *)
(* by its callbacks, which have returned, invoked.                         *)

NewFrame(m, s) ==
    [msg |-> m, recipients |-> Recipients(m, s), ri |-> 0, ci |-> 1,
     cbs |-> <<>>, live |-> FALSE, executing |-> None,
     start |-> s, invoked |-> <<>>, unsub |-> FALSE, raised |-> FALSE,
     nested |-> {}]

Top == stack[Len(stack)]
SetTop(st, f) == [st EXCEPT ![Len(st)] = f]
Pop(st) == SubSeq(st, 1, Len(st) - 1)

\* the first recipient after position ri that has an entry in the table (line 105), or 0
RECURSIVE NextRecipient(_, _, _)
NextRecipient(recipients, ri, s) ==
    IF ri + 1 > Len(recipients) THEN 0
    ELSE IF recipients[ri + 1] \in SubIds(s) THEN ri + 1
    ELSE NextRecipient(recipients, ri + 1, s)

\* where the loops of lines 104-106 stand when they reach the next callback
NextCall(f, s) ==
    IF f.raised THEN [found |-> FALSE]
    ELSE IF f.ci <= Len(f.cbs)
    THEN [found |-> TRUE, ri |-> f.ri, ci |-> f.ci, cbs |-> f.cbs, live |-> f.live]
    ELSE LET j == NextRecipient(f.recipients, f.ri, s)
         IN  IF j = 0 THEN [found |-> FALSE]
             ELSE [found |-> TRUE, ri |-> j, ci |-> 1,
                   cbs |-> SubList(s, f.recipients[j]), live |-> TRUE]

\* the frame once the loops have fetched that callback and are calling it
Calling(f, nc) ==
    [f EXCEPT !.ri = nc.ri, !.ci = nc.ci + 1, !.cbs = nc.cbs, !.live = nc.live,
              !.invoked = Append(@, [id |-> f.recipients[nc.ri], i |-> nc.ci,
                                     cb |-> nc.cbs[nc.ci]])]

\* the registrations (subscriber id, position, callback) a publish() call has invoked
InvokedBy(f) == {f.invoked[k] : k \in DOMAIN f.invoked}

\* the calling frame once the publish() call f made by its callback has returned
Returned(caller, f) == [caller EXCEPT !.nested = @ \cup InvokedBy(f) \cup f.nested]

\* try / except Exception around the callback (lines 107-110)
OnCallbackFaultPropagate(f) == [f EXCEPT !.raised = TRUE]
OnCallbackFault(f) == f

\* the in-place append of subscribe, seen by the publish() calls iterating that list
StackSubscribe(st, id, cb) ==
    [k \in DOMAIN st |->
        IF st[k].live /\ st[k].recipients[st[k].ri] = id
        THEN [st[k] EXCEPT !.cbs = Append(@, cb)]
        ELSE st[k]]

\* unsubscribe rebinds or deletes subscribers[id]
StackUnsubscribe(st, id) ==
    [k \in DOMAIN st |->
        IF st[k].live /\ st[k].recipients[st[k].ri] = id
        THEN [st[k] EXCEPT !.live = FALSE, !.unsub = TRUE]
        ELSE [st[k] EXCEPT !.unsub = TRUE]]

-----------------------------------------------------------------------------
(* MessageRouter operations *)

\* subscribe(subscriber_id, callback), lines 114-126
Subscribe(id, cb) ==
    /\ subscribers' = subscribe(subscribers, id, cb)
    /\ stack' = StackSubscribe(stack, id, cb)
    /\ UNCHANGED <<message_history, published>>

\* unsubscribe(subscriber_id, callback), lines 128-144
Unsubscribe(id, cb) ==
    /\ subscribers' = unsubscribe(subscribers, id, cb)
    /\ stack' = IF id \in SubIds(subscribers) THEN StackUnsubscribe(stack, id) ELSE stack
    /\ UNCHANGED <<message_history, published>>

\* publish(message) up to the delivery loop, lines 90-101
PublishBegin(m) ==
    /\ message_history' = HistoryAppend(message_history, m)
    /\ published' = published + 1
    /\ stack' = Append(stack, NewFrame(m, subscribers))
    /\ UNCHANGED subscribers

\* one call of a plain callback by the delivery loop, lines 104-110
DeliverPlain ==
    /\ stack # <<>>
    /\ Top.executing = None
    /\ LET nc == NextCall(Top, subscribers)
       IN  /\ nc.found
           /\ nc.cbs[nc.ci] \in {CbOk, CbFault}
           /\ stack' = SetTop(stack, IF nc.cbs[nc.ci] = CbFault
                                     THEN OnCallbackFault(Calling(Top, nc))
                                     ELSE Calling(Top, nc))
    /\ UNCHANGED <<subscribers, message_history, published>>

\* a callback that publishes a message of its own from inside the delivery
DeliverPub(limit, to) ==
    /\ stack # <<>>
    /\ Top.executing = None
    /\ LET nc == NextCall(Top, subscribers)
       IN  /\ nc.found
           /\ nc.cbs[nc.ci] = CbPub
           /\ \/ /\ published < limit
                 /\ Len(stack) < MaxDepth
                 /\ \E r \in to :
                      LET m == Message(published + 1, Top.recipients[nc.ri], r,
                                       "notification", NoContent, Top.msg.correlation_id)
                      IN  /\ message_history' = HistoryAppend(message_history, m)
                          /\ published' = published + 1
                          /\ stack' = Append(SetTop(stack, Calling(Top, nc)),
                                             NewFrame(m, subscribers))
              \/ /\ published >= limit \/ Len(stack) >= MaxDepth
                 /\ stack' = SetTop(stack, Calling(Top, nc))
                 /\ UNCHANGED <<message_history, published>>
    /\ UNCHANGED subscribers

\* publish() returns (line 112), or the fault it did not catch leaves it
PublishReturn ==
    /\ stack # <<>>
    /\ Top.executing = None
    /\ ~NextCall(Top, subscribers).found
    /\ stack' = IF Len(stack) > 1
                THEN SetTop(Pop(stack),
                            IF Top.raised
                            THEN OnCallbackFault(Returned(stack[Len(stack) - 1], Top))
                            ELSE Returned(stack[Len(stack) - 1], Top))
                ELSE Pop(stack)
    /\ UNCHANGED <<subscribers, message_history, published>>

-----------------------------------------------------------------------------
(* Task.  by and arg are not fields of the Python object: by is the method *)
(* that wrote status last, arg the argument of the last set_result or      *)
(* set_error call.  updated_at counts the datetime.now() readings stored   *)
(* in it (created_at is reading 0).                                        *)

Statuses == {"pending", "running", "completed", "failed", "cancelled"}
Terminal(s) == s \in {"completed", "failed", "cancelled"}

\* a metadata argument: None, {} or a dict with an entry
EmptyDict == Map(<<>>)
Metadata == {NoValue, EmptyDict, Map([k |-> "v"])}
Descriptions == {"d1", "d2"}
UserIds == {None, "u1"}

\* Task.__init__, lines 25-46, as create_task calls it (line 115); subtasks
\* holds the ids of the Task objects in the list
TaskInit(id, description, user_id, metadata) ==
    [task_id |-> id, description |-> description, user_id |-> user_id,
     status |-> "pending",
     metadata |-> IF metadata \in {NoValue, EmptyDict} THEN EmptyDict ELSE metadata,
     parent_task_id |-> None, subtasks |-> <<>>,
     result |-> NoValue, error |-> NoValue,
     updated_at |-> 0, by |-> "__init__", arg |-> NoValue]

\* the task the callers of the executor create
NewTask(id) == TaskInit(id, "d1", None, NoValue)

\* Task.update_status, lines 81-85
update_status(tk, s) ==
    [tk EXCEPT !.status = s, !.updated_at = @ + 1, !.by = "update_status"]

\* Task.set_result, lines 93-97
set_result_unstored(tk, r) ==
    [update_status(tk, "completed") EXCEPT !.by = "set_result", !.arg = r]
set_result(tk, r) ==
    [update_status([tk EXCEPT !.result = r], "completed")
        EXCEPT !.by = "set_result", !.arg = r]

\* Task.set_error, lines 99-103
set_error_unfailed(tk, e) ==
    [tk EXCEPT !.error = e, !.updated_at = @ + 1, !.by = "set_error", !.arg = e]
set_error(tk, e) ==
    [update_status([tk EXCEPT !.error = e], "failed")
        EXCEPT !.by = "set_error", !.arg = e]

\* Task.add_subtask, lines 87-91, on the Task objects tm: p.add_subtask(c)
add_subtask(tm, p, c) ==
    [tm EXCEPT ![c].parent_task_id = tm[p].task_id, ![p].subtasks = Append(@, c)]

-----------------------------------------------------------------------------
(* The state the executor works on: the Task objects, TaskManager.tasks    *)
(* and ExecutorAgent.active_tasks                                          *)

Put(f, k, v) == [x \in DOMAIN f \cup {k} |-> IF x = k THEN v ELSE f[x]]
Del(f, k) == [x \in DOMAIN f \ {k} |-> f[x]]
EmptyMap == [x \in {} |-> NoValue]

Orch == [task |-> task, tasks |-> tasks, active_tasks |-> active_tasks]
SetOrch(o) ==
    /\ task' = o.task
    /\ tasks' = o.tasks
    /\ active_tasks' = o.active_tasks

WithinUpdates(o) == \A t \in DOMAIN o.task : o.task[t].updated_at <= MaxUpdates

\* TaskManager.update_task, lines 124-127
UpdateTaskOfStored(o, t) == o
UpdateTaskReplacesStore(o, t) == [o EXCEPT !.tasks = {t}]
update_task(o, t) == [o EXCEPT !.tasks = @ \cup {t}]

\* a subtask tracking entry as the delegation registers it
PendingEntry == [status |-> "pending", result |-> None, error |-> None]

\* ExecutorAgent._finalize_task, lines 290-320
FinalizeKeepActive(o, t) ==
    IF t \notin DOMAIN o.active_tasks THEN o
    ELSE LET subs == o.active_tasks[t].subtasks
             done == {a \in DOMAIN subs : subs[a].status = "completed"}
             results == [a \in done |-> subs[a].result]
         IN  update_task([o EXCEPT !.task[t] = set_result(@, Map(results))], t)
_finalize_task(o, t) ==
    IF t \notin DOMAIN o.active_tasks THEN o
    ELSE LET subs == o.active_tasks[t].subtasks
             done == {a \in DOMAIN subs : subs[a].status = "completed"}
             results == [a \in done |-> subs[a].result]
             stored == update_task([o EXCEPT !.task[t] = set_result(@, Map(results))], t)
         IN  [stored EXCEPT !.active_tasks = Del(@, t)]

\* ExecutorAgent._handle_subtask_result, lines 230-258
ResultWaitsForTracked(o, t, result, sender) ==
    IF t \notin DOMAIN o.active_tasks THEN o
    ELSE LET subs == o.active_tasks[t].subtasks
             marked == IF sender \in DOMAIN subs
                       THEN [subs EXCEPT ![sender] =
                                [@ EXCEPT !.status = "completed", !.result = result]]
                       ELSE subs
             o2 == [o EXCEPT !.active_tasks[t].subtasks = marked]
         IN  IF DOMAIN marked # {} /\ \A a \in DOMAIN marked : marked[a].status = "completed"
             THEN _finalize_task(o2, t)
             ELSE o2
ResultKeepsFirst(o, t, result, sender) ==
    IF t \notin DOMAIN o.active_tasks THEN o
    ELSE LET subs == o.active_tasks[t].subtasks
             marked == IF sender \in DOMAIN subs /\ subs[sender].status # "completed"
                       THEN [subs EXCEPT ![sender] =
                                [@ EXCEPT !.status = "completed", !.result = result]]
                       ELSE subs
             o2 == [o EXCEPT !.active_tasks[t].subtasks = marked]
         IN  IF \A a \in DOMAIN marked : marked[a].status = "completed"
             THEN _finalize_task(o2, t)
             ELSE o2
ResultFinalizeOnAny(o, t, result, sender) ==
    IF t \notin DOMAIN o.active_tasks THEN o
    ELSE LET subs == o.active_tasks[t].subtasks
             marked == IF sender \in DOMAIN subs
                       THEN [subs EXCEPT ![sender] =
                                [@ EXCEPT !.status = "completed", !.result = result]]
                       ELSE subs
             o2 == [o EXCEPT !.active_tasks[t].subtasks = marked]
         IN  IF \E a \in DOMAIN marked : marked[a].status = "completed"
             THEN _finalize_task(o2, t)
             ELSE o2
_handle_subtask_result(o, t, result, sender) ==
    IF t \notin DOMAIN o.active_tasks THEN o
    ELSE LET subs == o.active_tasks[t].subtasks
             marked == IF sender \in DOMAIN subs
                       THEN [subs EXCEPT ![sender] =
                                [@ EXCEPT !.status = "completed", !.result = result]]
                       ELSE subs
             o2 == [o EXCEPT !.active_tasks[t].subtasks = marked]
         IN  IF \A a \in DOMAIN marked : marked[a].status = "completed"
             THEN _finalize_task(o2, t)
             ELSE o2

\* ExecutorAgent._handle_subtask_error, lines 260-288
ErrorKeepActive(o, t, error, sender) ==
    IF t \notin DOMAIN o.active_tasks THEN o
    ELSE update_task([o EXCEPT !.task[t] = set_error(@, SubtaskFailed(sender, error))], t)
_handle_subtask_error(o, t, error, sender) ==
    IF t \notin DOMAIN o.active_tasks THEN o
    ELSE LET failed == [o EXCEPT !.task[t] = set_error(@, SubtaskFailed(sender, error))]
         IN  [update_task(failed, t) EXCEPT !.active_tasks = Del(@, t)]

\* ExecutorAgent.execute_task up to the call of initiate_chat, lines 174-185
ExecuteBeginKeepsEntry(o, t) ==
    LET running == [o EXCEPT !.task[t] = update_status(@, "running")]
    IN  IF t \in DOMAIN o.active_tasks THEN update_task(running, t)
        ELSE [update_task(running, t) EXCEPT
                 !.active_tasks = Put(@, t, [subtasks |-> EmptyMap])]
ExecuteBeginUnstored(o, t) ==
    [[o EXCEPT !.task[t] = update_status(@, "running")] EXCEPT
        !.active_tasks = Put(@, t, [subtasks |-> EmptyMap])]
execute_begin(o, t) ==
    LET running == [o EXCEPT !.task[t] = update_status(@, "running")]
    IN  [update_task(running, t) EXCEPT
            !.active_tasks = Put(@, t, [subtasks |-> EmptyMap])]

\* ExecutorAgent.execute_task from the return of initiate_chat, lines 195-214.
\* outcome: "final" (the chat holds a message of the executor), "no_final", or
\* "raises" (initiate_chat raised); line 197 raises KeyError when the entry is gone.
ExecuteEndKeepActive(o, t, outcome) ==
    LET tk == o.task[t]
        ended == IF outcome = "raises" THEN set_error(tk, ExecutionError("fault"))
                 ELSE IF t \notin DOMAIN o.active_tasks
                      THEN set_error(tk, ExecutionError("KeyError"))
                 ELSE IF outcome = "final" THEN set_result(tk, Val("final"))
                 ELSE set_error(tk, NoFinalResult)
    IN  update_task([o EXCEPT !.task[t] = ended], t)
execute_end(o, t, outcome) ==
    LET tk == o.task[t]
        ended == IF outcome = "raises" THEN set_error(tk, ExecutionError("fault"))
                 ELSE IF t \notin DOMAIN o.active_tasks
                      THEN set_error(tk, ExecutionError("KeyError"))
                 ELSE IF outcome = "final" THEN set_result(tk, Val("final"))
                 ELSE set_error(tk, NoFinalResult)
    IN  [update_task([o EXCEPT !.task[t] = ended], t) EXCEPT
            !.active_tasks = Del(@, t)]

\* ExecutorAgent.handle_message for RESULT and ERROR, lines 153-165
HandleOutcomeOnStored(o, m) ==
    LET t == m.content.task_id
    IN  IF Truthy(t) /\ t \in o.tasks
        THEN [o EXCEPT !.task[t] = set_error(@, SubtaskFailed(m.sender_id, m.content.payload))]
        ELSE o
handle_outcome(o, m) ==
    LET t == m.content.task_id
    IN  IF Truthy(t) /\ t \in DOMAIN o.active_tasks
        THEN IF m.message_type = "result"
             THEN _handle_subtask_result(o, t, m.content.payload, m.sender_id)
             ELSE _handle_subtask_error(o, t, m.content.payload, m.sender_id)
        ELSE o

-----------------------------------------------------------------------------
(* Task and TaskManager operations called by the API, the CLI and tests.    *)
(* A caller runs between two publish() calls or inside a delegation (the   *)
(* steps of a publish() outside its callbacks touch no task state, so a    *)
(* call made by another thread during them has the effect of the same call *)
(* made just before or just after).                                        *)

Quiescent == IF stack = <<>> THEN TRUE ELSE Top.executing # None

TaskOrder == <<"t1", "t2", "t3">>
FreshTaskId == TaskOrder[Cardinality(DOMAIN task) + 1]

\* TaskManager.create_task, lines 113-118; ids names the uuids still to be drawn
CreateTask(ids) ==
    /\ Quiescent
    /\ Cardinality(DOMAIN task) < Len(TaskOrder)
    /\ FreshTaskId \in ids
    /\ task' = Put(task, FreshTaskId, NewTask(FreshTaskId))
    /\ tasks' = tasks \cup {FreshTaskId}
    /\ UNCHANGED <<active_tasks, bg_exec>>
    /\ UNCHANGED <<busVars, dirVars, obsVars>>

\* task.update_status(s) by a holder of the object
UpdateStatus(t, s) ==
    /\ Quiescent
    /\ t \in DOMAIN task
    /\ task[t].updated_at < MaxUpdates
    /\ task' = [task EXCEPT ![t] = update_status(@, s)]
    /\ UNCHANGED <<tasks, active_tasks, bg_exec>>
    /\ UNCHANGED <<busVars, dirVars, obsVars>>

\* task.set_result(r) by a holder of the object
SetResult(t, r) ==
    /\ Quiescent
    /\ t \in DOMAIN task
    /\ task[t].updated_at < MaxUpdates
    /\ task' = [task EXCEPT ![t] = set_result(@, r)]
    /\ UNCHANGED <<tasks, active_tasks, bg_exec>>
    /\ UNCHANGED <<busVars, dirVars, obsVars>>

\* task.set_error(e) by a holder of the object
SetError(t, e) ==
    /\ Quiescent
    /\ t \in DOMAIN task
    /\ task[t].updated_at < MaxUpdates
    /\ task' = [task EXCEPT ![t] = set_error(@, e)]
    /\ UNCHANGED <<tasks, active_tasks, bg_exec>>
    /\ UNCHANGED <<busVars, dirVars, obsVars>>

\* TaskManager.create_task, lines 113-118, drawing the uuid id
CreateTaskUnstored(o, id, description, user_id, metadata) ==
    [o EXCEPT !.task = Put(@, id, TaskInit(id, description, user_id, metadata))]
create_task(o, id, description, user_id, metadata) ==
    [o EXCEPT !.task = Put(@, id, TaskInit(id, description, user_id, metadata)),
              !.tasks = @ \cup {id}]

\* TaskManager.get_task, lines 120-122
get_task(o, id) == IF id \in o.tasks THEN o.task[id] ELSE NoValue

\* create_task(description, user_id, metadata) by a caller
CreateTaskWith(description, user_id, metadata) ==
    /\ Quiescent
    /\ Cardinality(DOMAIN task) < Len(TaskOrder)
    /\ SetOrch(create_task(Orch, FreshTaskId, description, user_id, metadata))
    /\ UNCHANGED bg_exec
    /\ UNCHANGED <<busVars, dirVars, obsVars>>

\* p.add_subtask(c) by a holder of the two objects
AddSubtask(p, c) ==
    /\ Quiescent
    /\ p \in DOMAIN task
    /\ c \in DOMAIN task
    /\ Len(task[p].subtasks) < MaxChildren
    /\ task' = add_subtask(task, p, c)
    /\ UNCHANGED <<tasks, active_tasks, bg_exec>>
    /\ UNCHANGED <<busVars, dirVars, obsVars>>

\* TaskManager.delete_task, lines 129-135: the store afterwards and the value returned
delete_task(o, id) ==
    IF id \in o.tasks
    THEN [o |-> [o EXCEPT !.tasks = @ \ {id}], ret |-> TRUE]
    ELSE [o |-> o, ret |-> FALSE]

\* TaskManager.delete_task on a stored id, lines 129-135
DeleteTask(t) ==
    /\ Quiescent
    /\ t \in tasks
    /\ tasks' = delete_task(Orch, t).o.tasks
    /\ UNCHANGED <<task, active_tasks, bg_exec>>
    /\ UNCHANGED <<busVars, dirVars, obsVars>>

-----------------------------------------------------------------------------
(* ExecutorAgent operations *)

\* BaseAgent.register_message_router, lines 36-45
RegisterMessageRouter ==
    /\ Registrations(subscribers) < MaxExecRegs
    /\ Subscribe(ExecutorId, ExecCb)
    /\ UNCHANGED <<taskVars, dirVars, obsVars>>

\* the delegation records a delegate agent of an active task as pending
TrackSubtask(t, a) ==
    /\ Quiescent
    /\ t \in DOMAIN active_tasks
    /\ a \notin DOMAIN active_tasks[t].subtasks
    /\ active_tasks' = [active_tasks EXCEPT ![t].subtasks = Put(@, a, PendingEntry)]
    /\ UNCHANGED <<task, tasks, bg_exec>>
    /\ UNCHANGED <<busVars, dirVars, obsVars>>

\* execute_task(task) started as a background task (server.py line 80) enters initiate_chat
BgExecuteBegin(t) ==
    /\ Quiescent
    /\ t \in DOMAIN task
    /\ t \notin bg_exec
    /\ WithinUpdates(execute_begin(Orch, t))
    /\ SetOrch(execute_begin(Orch, t))
    /\ bg_exec' = bg_exec \cup {t}
    /\ UNCHANGED <<busVars, dirVars, obsVars>>

\* ... and initiate_chat returns or raises
BgExecuteEnd(t, outcome) ==
    /\ Quiescent
    /\ t \in bg_exec
    /\ WithinUpdates(execute_end(Orch, t, outcome))
    /\ SetOrch(execute_end(Orch, t, outcome))
    /\ bg_exec' = bg_exec \ {t}
    /\ UNCHANGED <<busVars, dirVars, obsVars>>

\* the messages agents and callers send to the executor
OrchMessages(id, ids) ==
    {Message(id, a, ExecutorId, "result", [task_id |-> t, payload |-> r], NoCorrelation) :
        a \in Agents, t \in ids, r \in Results}
    \cup
    {Message(id, a, ExecutorId, "error", [task_id |-> t, payload |-> e], NoCorrelation) :
        a \in Agents, t \in ids, e \in Errors}
    \cup
    {Message(id, "user", ExecutorId, "task", [task_id |-> t, payload |-> None], NoCorrelation) :
        t \in ids}

\* send_message: publish, from outside any delivery or from inside a delegation
AgentPublish(m) ==
    /\ published < MaxPublishes
    /\ Quiescent
    /\ Len(stack) < MaxDepth
    /\ PublishBegin(m)
    /\ UNCHANGED <<taskVars, dirVars, obsVars>>

\* the delivery loop calls ExecutorAgent.handle_message, lines 138-165
DeliverExec ==
    /\ stack # <<>>
    /\ Top.executing = None
    /\ LET nc == NextCall(Top, subscribers)
       IN  /\ nc.found
           /\ nc.cbs[nc.ci] = ExecCb
           /\ LET m == Top.msg
                  t == m.content.task_id
              IN  IF m.message_type = "task"
                  THEN IF Truthy(t) /\ t \in tasks
                       THEN /\ WithinUpdates(execute_begin(Orch, t))
                            /\ SetOrch(execute_begin(Orch, t))
                            /\ stack' = SetTop(stack, [Calling(Top, nc) EXCEPT !.executing = t])
                       ELSE /\ stack' = SetTop(stack, Calling(Top, nc))
                            /\ UNCHANGED <<task, tasks, active_tasks>>
                  ELSE IF m.message_type \in {"result", "error"}
                  THEN /\ WithinUpdates(handle_outcome(Orch, m))
                       /\ SetOrch(handle_outcome(Orch, m))
                       /\ stack' = SetTop(stack, Calling(Top, nc))
                  ELSE /\ stack' = SetTop(stack, Calling(Top, nc))
                       /\ UNCHANGED <<task, tasks, active_tasks>>
    /\ UNCHANGED <<subscribers, message_history, published, bg_exec, agents, obsVars>>

\* initiate_chat, called by execute_task inside handle_message, returns or raises
ExecuteReturn(outcome) ==
    /\ stack # <<>>
    /\ Top.executing # None
    /\ WithinUpdates(execute_end(Orch, Top.executing, outcome))
    /\ SetOrch(execute_end(Orch, Top.executing, outcome))
    /\ stack' = SetTop(stack, [Top EXCEPT !.executing = None])
    /\ UNCHANGED <<subscribers, message_history, published, bg_exec, agents, obsVars>>

Outcomes == {"final", "no_final", "raises"}

\* handle_message(m) called on the executor directly, with no router in between;
\* for a TASK message execute_task enters initiate_chat
HandleDirect(m) ==
    /\ Quiescent
    /\ IF m.message_type = "task"
       THEN /\ m.content.task_id \in tasks
            /\ m.content.task_id \notin bg_exec
            /\ WithinUpdates(execute_begin(Orch, m.content.task_id))
            /\ SetOrch(execute_begin(Orch, m.content.task_id))
            /\ bg_exec' = bg_exec \cup {m.content.task_id}
       ELSE /\ handle_outcome(Orch, m) # Orch
            /\ WithinUpdates(handle_outcome(Orch, m))
            /\ SetOrch(handle_outcome(Orch, m))
            /\ UNCHANGED bg_exec
    /\ UNCHANGED <<busVars, dirVars, obsVars>>

-----------------------------------------------------------------------------
(* Message and its dictionary form.  Here a Message carries all the fields *)
(* of the Python object; message_type is a member of the enum MessageType, *)
(* named as in the source, and its value is the string the enum gives it.  *)
(* A datetime is a record holding its instant, its ISO text another record. *)

MessageType == {"TASK", "RESULT", "ERROR", "STATUS", "COMMAND", "NOTIFICATION"}

\* MessageType.<member>.value, lines 13-20
MessageTypeValue ==
    [mt \in MessageType |->
        CASE mt = "TASK" -> "task"
          [] mt = "RESULT" -> "result"
          [] mt = "ERROR" -> "error"
          [] mt = "STATUS" -> "status"
          [] mt = "COMMAND" -> "command"
          [] mt = "NOTIFICATION" -> "notification"]

\* MessageType(value): the member with that value
MessageTypeOf(v) == CHOOSE mt \in MessageType : MessageTypeValue[mt] = v

DateTime(t) == [kind |-> "datetime", t |-> t]
isoformat(dt) == [kind |-> "iso", text |-> dt.t]
fromisoformat(iso) == [kind |-> "datetime", t |-> iso.text]

\* None as a message id
NoId == NoCorrelation

\* Message.__init__, lines 26-44; uuid is the uuid4 it draws and now the
\* clock it reads when it needs them
MessageInit(message_id, sender_id, recipient_id, message_type, content, created_at, metadata, correlation_id, uuid, now) ==
    LET id == IF message_id # NoId THEN message_id ELSE uuid
    IN  [message_id |-> id,
         sender_id |-> sender_id,
         recipient_id |-> recipient_id,
         message_type |-> message_type,
         content |-> content,
         created_at |-> IF created_at # NoValue THEN created_at ELSE now,
         metadata |-> IF metadata \in {NoValue, EmptyDict} THEN EmptyDict ELSE metadata,
         correlation_id |-> IF correlation_id # NoCorrelation THEN correlation_id ELSE id]

\* Message.to_dict, lines 46-57
to_dict(m) ==
    [message_id |-> m.message_id,
     sender_id |-> m.sender_id,
     recipient_id |-> m.recipient_id,
     message_type |-> MessageTypeValue[m.message_type],
     content |-> m.content,
     created_at |-> isoformat(m.created_at),
     metadata |-> m.metadata,
     correlation_id |-> m.correlation_id]

\* dict.get(key, default)
Get(d, key, default) == IF key \in DOMAIN d THEN d[key] ELSE default

\* Message.from_dict, lines 59-71
FromDictOwnCorrelation(data, uuid, now) ==
    MessageInit(Get(data, "message_id", NoId),
                Get(data, "sender_id", ""),
                Get(data, "recipient_id", None),
                MessageTypeOf(Get(data, "message_type", "notification")),
                Get(data, "content", NoContent),
                IF Get(data, "created_at", NoValue) # NoValue
                THEN fromisoformat(Get(data, "created_at", NoValue)) ELSE NoValue,
                Get(data, "metadata", EmptyDict),
                NoCorrelation,
                uuid, now)
from_dict(data, uuid, now) ==
    MessageInit(Get(data, "message_id", NoId),
                Get(data, "sender_id", ""),
                Get(data, "recipient_id", None),
                MessageTypeOf(Get(data, "message_type", "notification")),
                Get(data, "content", NoContent),
                IF Get(data, "created_at", NoValue) # NoValue
                THEN fromisoformat(Get(data, "created_at", NoValue)) ELSE NoValue,
                Get(data, "metadata", EmptyDict),
                Get(data, "correlation_id", NoCorrelation),
                uuid, now)

\* what callers hold before a message exists
NoWire == [stage |-> "none"]

\* the arguments callers build messages from; the uuids and the clock
\* readings differ from one constructor call to the next
WireIds == {NoId, 1}
WireSenders == {"", "a1"}
WireRecipients == {None, "", "a1"}
WireContents == {NoContent, [task_id |-> "t1", payload |-> "r1"]}
WireTimes == {NoValue, DateTime(1)}
WireCorrelations == {NoCorrelation, 1, 2}
FirstUuids == {3}
SecondUuids == {4}
FirstNow == {DateTime(2)}
SecondNow == {DateTime(3)}

\* a caller constructs a Message
WireCreate(m) ==
    /\ wire = NoWire
    /\ wire' = [stage |-> "message", m |-> m]
    /\ UNCHANGED <<busVars, taskVars, dirVars, last_unsubscribe>>

\* ... calls to_dict on it
WireToDict ==
    /\ wire.stage = "message"
    /\ wire' = [stage |-> "dict", m |-> wire.m, data |-> to_dict(wire.m)]
    /\ UNCHANGED <<busVars, taskVars, dirVars, last_unsubscribe>>

\* ... and calls from_dict on the dict
WireFromDict(uuid, now) ==
    /\ wire.stage = "dict"
    /\ wire' = [stage |-> "rebuilt", m |-> wire.m, data |-> wire.data,
                back |-> from_dict(wire.data, uuid, now)]
    /\ UNCHANGED <<busVars, taskVars, dirVars, last_unsubscribe>>

WireMessages ==
    {MessageInit(id, s, r, mt, c, at, md, corr, uuid, now) :
        id \in WireIds, s \in WireSenders, r \in WireRecipients, mt \in MessageType,
        c \in WireContents, at \in WireTimes, md \in Metadata, corr \in WireCorrelations,
        uuid \in FirstUuids, now \in FirstNow}

-----------------------------------------------------------------------------
(* Specifications *)

NoCall == [id |-> None, cb |-> None, found |-> 0]

Init ==
    /\ subscribers = <<>>
    /\ message_history = <<>>
    /\ published = 0
    /\ stack = <<>>
    /\ task = EmptyMap
    /\ tasks = {}
    /\ active_tasks = EmptyMap
    /\ bg_exec = {}
    /\ agents = EmptyMap
    /\ last_unsubscribe = NoCall
    /\ wire = NoWire

\* Spec: the executor on the bus, one task
Next ==
    \/ CreateTask(OrchTaskIds)
    \/ \E t \in OrchTaskIds : UpdateStatus(t, "cancelled")
    \/ \E t \in OrchTaskIds : DeleteTask(t)
    \/ RegisterMessageRouter
    \/ \E t \in OrchTaskIds, a \in Agents : TrackSubtask(t, a)
    \/ \E t \in OrchTaskIds : BgExecuteBegin(t)
    \/ \E t \in OrchTaskIds, oc \in Outcomes : BgExecuteEnd(t, oc)
    \/ \E m \in OrchMessages(published + 1, OrchTaskIds) : AgentPublish(m)
    \/ DeliverExec
    \/ \E oc \in Outcomes : ExecuteReturn(oc)
    \/ PublishReturn /\ UNCHANGED <<taskVars, dirVars, obsVars>>

Spec == Init /\ [][Next]_vars

\* SpecTask: the Task methods, the store and the executor called directly, one task
NextTask ==
    \/ CreateTask(OrchTaskIds)
    \/ \E t \in OrchTaskIds, s \in Statuses : UpdateStatus(t, s)
    \/ \E t \in OrchTaskIds : SetResult(t, Val("r1"))
    \/ \E t \in OrchTaskIds : SetError(t, Val("e1"))
    \/ \E t \in OrchTaskIds : DeleteTask(t)
    \/ \E t \in OrchTaskIds, a \in Agents : TrackSubtask(t, a)
    \/ \E t \in OrchTaskIds : BgExecuteBegin(t)
    \/ \E t \in OrchTaskIds, oc \in Outcomes : BgExecuteEnd(t, oc)
    \/ \E m \in OrchMessages(0, OrchTaskIds) : HandleDirect(m)

SpecTask == Init /\ [][NextTask]_vars

\* SpecTwo: two tasks in execution at a time, the executor called directly
NextTwo ==
    \/ CreateTask(TaskIds)
    \/ \E t \in TaskIds, a \in Agents : TrackSubtask(t, a)
    \/ \E t \in TaskIds : BgExecuteBegin(t)
    \/ \E t \in TaskIds, oc \in Outcomes : BgExecuteEnd(t, oc)
    \/ \E m \in OrchMessages(0, TaskIds) : HandleDirect(m)

SpecTwo == Init /\ [][NextTwo]_vars

\* task t exists and fewer than n method calls have written its status
Written(t, n) == IF t \in DOMAIN task THEN task[t].updated_at < n ELSE FALSE

\* SpecStore: callers create tasks with every description, user and metadata,
\* start them and delete them from the store
NextStore ==
    \/ \E d \in Descriptions, u \in UserIds, md \in Metadata : CreateTaskWith(d, u, md)
    \/ \E t \in TreeTaskIds : Written(t, MaxStoreUpdates) /\ UpdateStatus(t, "running")
    \/ \E t \in TreeTaskIds : DeleteTask(t)

SpecStore == Init /\ [][NextStore]_vars

\* the number of status writes made on the tasks of S
RECURSIVE SumWrites(_)
SumWrites(S) ==
    IF S = {} THEN 0
    ELSE LET t == CHOOSE x \in S : TRUE
         IN  task[t].updated_at + SumWrites(S \ {t})
TreeWritable == SumWrites(DOMAIN task) < MaxTreeWrites

\* the add_subtask calls of SpecTree: a task is given subtasks created after it
TreeEdges == {<<"t1", "t2">>, <<"t1", "t3">>, <<"t2", "t3">>}

\* SpecTree: callers create three tasks, make the later ones subtasks of the
\* earlier ones, also of two parents or twice of one, and call the status
\* methods on them
NextTree ==
    \/ CreateTask(TreeTaskIds)
    \/ \E e \in TreeEdges : AddSubtask(e[1], e[2])
    \/ \E t \in TreeTaskIds, st \in Statuses : TreeWritable /\ UpdateStatus(t, st)
    \/ \E t \in TreeTaskIds : TreeWritable /\ SetResult(t, Val("r1"))
    \/ \E t \in TreeTaskIds : TreeWritable /\ SetError(t, Val("e1"))

SpecTree == Init /\ [][NextTree]_vars

\* SpecLate: RESULT and ERROR messages reach the executor through the router
\* for a task that is active, not yet or no longer active, or unknown, and
\* without a task id
LatePublish(m) ==
    /\ stack = <<>>
    /\ published < MaxLatePublishes
    /\ PublishBegin(m)
    /\ UNCHANGED <<taskVars, dirVars, obsVars>>

LateMessages(id) ==
    {m \in OrchMessages(id, {"t1", "t2", None}) : m.message_type \in {"result", "error"}}

NextLate ==
    \/ CreateTask(OrchTaskIds)
    \/ RegisterMessageRouter
    \/ \E t \in OrchTaskIds : BgExecuteBegin(t)
    \/ \E t \in OrchTaskIds, oc \in Outcomes : BgExecuteEnd(t, oc)
    \/ \E m \in LateMessages(published + 1) : LatePublish(m)
    \/ DeliverExec
    \/ PublishReturn /\ UNCHANGED <<taskVars, dirVars, obsVars>>

SpecLate == Init /\ [][NextLate]_vars

\* SpecRepeat: the agents of an active task send it RESULT messages through
\* the router, also several times
RepeatPublish(m) ==
    /\ stack = <<>>
    /\ published < MaxRepeatPublishes
    /\ PublishBegin(m)
    /\ UNCHANGED <<taskVars, dirVars, obsVars>>

RepeatMessages(id) ==
    {m \in OrchMessages(id, OrchTaskIds) : m.message_type = "result"}

NextRepeat ==
    \/ CreateTask(OrchTaskIds)
    \/ RegisterMessageRouter
    \/ \E t \in OrchTaskIds : BgExecuteBegin(t)
    \/ \E t \in OrchTaskIds, a \in Agents : TrackSubtask(t, a)
    \/ \E m \in RepeatMessages(published + 1) : RepeatPublish(m)
    \/ DeliverExec
    \/ PublishReturn /\ UNCHANGED <<taskVars, dirVars, obsVars>>

SpecRepeat == Init /\ [][NextRepeat]_vars

\* SpecAgain: a task is executed again, by a TASK message through the router
\* or by a background execute_task, while an execution of it is in progress
AgainPublish(m) ==
    /\ published < MaxAgainPublishes
    /\ Quiescent
    /\ Len(stack) < MaxDepth
    /\ PublishBegin(m)
    /\ UNCHANGED <<taskVars, dirVars, obsVars>>

AgainMessages(id) ==
    {m \in OrchMessages(id, OrchTaskIds) : m.message_type \in {"task", "result"}}

NextAgain ==
    \/ CreateTask(OrchTaskIds)
    \/ RegisterMessageRouter
    \/ \E t \in OrchTaskIds : BgExecuteBegin(t)
    \/ \E t \in OrchTaskIds, oc \in Outcomes : BgExecuteEnd(t, oc)
    \/ \E t \in OrchTaskIds, a \in Agents : TrackSubtask(t, a)
    \/ \E m \in AgainMessages(published + 1) : AgainPublish(m)
    \/ DeliverExec
    \/ \E oc \in Outcomes : ExecuteReturn(oc)
    \/ PublishReturn /\ UNCHANGED <<taskVars, dirVars, obsVars>>

SpecAgain == Init /\ [][NextAgain]_vars

\* SpecBus: the router with plain callbacks; callers subscribe, unsubscribe and
\* publish between deliveries, callbacks publish from inside them
BusSubscribe(id, cb) ==
    /\ stack = <<>>
    /\ Registrations(subscribers) < MaxRegs
    /\ Subscribe(id, cb)
    /\ UNCHANGED <<taskVars, dirVars, obsVars>>

BusUnsubscribe(id, cb) ==
    /\ stack = <<>>
    /\ id \in SubIds(subscribers)
    /\ Unsubscribe(id, cb)
    /\ UNCHANGED <<taskVars, dirVars, obsVars>>

BusPublish(m) ==
    /\ stack = <<>>
    /\ published < MaxBusPublishes
    /\ PublishBegin(m)
    /\ UNCHANGED <<taskVars, dirVars, obsVars>>

BusMessages(id) ==
    {Message(id, "user", r, "notification", NoContent, c) :
        r \in BusIds \cup {None, ""}, c \in {NoCorrelation, 1}}

NextBus ==
    \/ \E id \in BusIds, cb \in PlainCallbacks : BusSubscribe(id, cb)
    \/ \E id \in BusIds, cb \in PlainCallbacks \cup {None} : BusUnsubscribe(id, cb)
    \/ \E m \in BusMessages(published + 1) : BusPublish(m)
    \/ DeliverPlain /\ UNCHANGED <<taskVars, dirVars, obsVars>>
    \/ DeliverPub(MaxBusPublishes, BusIds \cup {None}) /\ UNCHANGED <<taskVars, dirVars, obsVars>>
    \/ PublishReturn /\ UNCHANGED <<taskVars, dirVars, obsVars>>

SpecBus == Init /\ [][NextBus]_vars

\* SpecHist: the history at its capacity; callbacks are registered before the
\* first message, every message is a broadcast, and the messages sent once the
\* history is full may carry the correlation id of the first message
HistSubscribe(id, cb) ==
    /\ published = 0
    /\ Registrations(subscribers) < MaxHistRegs
    /\ Subscribe(id, cb)
    /\ UNCHANGED <<taskVars, dirVars, obsVars>>

HistPublish(m) ==
    /\ stack = <<>>
    /\ published < MaxHistPublishes
    /\ PublishBegin(m)
    /\ UNCHANGED <<taskVars, dirVars, obsVars>>

HistMessages(id) ==
    {Message(id, "user", None, "notification", NoContent, c) :
        c \in IF id > max_history_size THEN {NoCorrelation, 1} ELSE {NoCorrelation}}

NextHist ==
    \/ \E cb \in {CbOk, CbPub} : HistSubscribe("a1", cb)
    \/ \E m \in HistMessages(published + 1) : HistPublish(m)
    \/ DeliverPlain /\ UNCHANGED <<taskVars, dirVars, obsVars>>
    \/ DeliverPub(MaxHistPublishes, {None}) /\ UNCHANGED <<taskVars, dirVars, obsVars>>
    \/ PublishReturn /\ UNCHANGED <<taskVars, dirVars, obsVars>>

SpecHist == Init /\ [][NextHist]_vars

\* SpecUnsub: callers subscribe, unsubscribe (known and unknown ids, with and
\* without callback) and publish between deliveries
UnsubCallbacks == {CbOk, CbFault}

UnsubSubscribe(id, cb) ==
    /\ stack = <<>>
    /\ Registrations(subscribers) < MaxUnsubRegs
    /\ Subscribe(id, cb)
    /\ UNCHANGED <<taskVars, dirVars, obsVars>>

UnsubUnsubscribe(id, cb) ==
    /\ stack = <<>>
    /\ Unsubscribe(id, cb)
    /\ last_unsubscribe' =
          [id |-> id, cb |-> cb,
           found |-> IF id \in SubIds(subscribers) THEN Len(SubList(subscribers, id)) ELSE 0]
    /\ UNCHANGED <<taskVars, dirVars, wire>>

UnsubPublish(m) ==
    /\ stack = <<>>
    /\ published < MaxUnsubPublishes
    /\ PublishBegin(m)
    /\ UNCHANGED <<taskVars, dirVars, obsVars>>

UnsubMessages(id) ==
    {Message(id, "user", r, "notification", NoContent, NoCorrelation) : r \in BusIds \cup {None}}

NextUnsub ==
    \/ \E id \in BusIds, cb \in UnsubCallbacks : UnsubSubscribe(id, cb)
    \/ \E id \in BusIds, cb \in UnsubCallbacks \cup {None} : UnsubUnsubscribe(id, cb)
    \/ \E m \in UnsubMessages(published + 1) : UnsubPublish(m)
    \/ DeliverPlain /\ UNCHANGED <<taskVars, dirVars, obsVars>>
    \/ PublishReturn /\ UNCHANGED <<taskVars, dirVars, obsVars>>

SpecUnsub == Init /\ [][NextUnsub]_vars

\* SpecQuery: callers publish broadcasts that carry their own or an earlier
\* message's correlation id, and query the history
QueryPublish(m) ==
    /\ stack = <<>>
    /\ published < MaxQueryPublishes
    /\ PublishBegin(m)
    /\ UNCHANGED <<taskVars, dirVars, obsVars>>

QueryMessages(id) ==
    {Message(id, "user", None, "notification", NoContent, c) : c \in {NoCorrelation, 1, 2}}

NextQuery ==
    \/ \E m \in QueryMessages(published + 1) : QueryPublish(m)
    \/ PublishReturn /\ UNCHANGED <<taskVars, dirVars, obsVars>>

SpecQuery == Init /\ [][NextQuery]_vars

\* SpecMut: callers and the callbacks of a publish in delivery subscribe and
\* unsubscribe while the delivery loop runs (a call made by a callback takes
\* effect before the loop fetches its next callback, as here)
MutSubscribe(id, cb) ==
    /\ Registrations(subscribers) < MaxMutRegs
    /\ Subscribe(id, cb)
    /\ UNCHANGED <<taskVars, dirVars, obsVars>>

MutUnsubscribe(id, cb) ==
    /\ id \in SubIds(subscribers)
    /\ Unsubscribe(id, cb)
    /\ UNCHANGED <<taskVars, dirVars, obsVars>>

MutPublish(m) ==
    /\ stack = <<>>
    /\ published < MaxMutPublishes
    /\ PublishBegin(m)
    /\ UNCHANGED <<taskVars, dirVars, obsVars>>

MutMessages(id) ==
    {Message(id, "user", r, "notification", NoContent, NoCorrelation) : r \in BusIds \cup {None}}

NextMut ==
    \/ \E id \in BusIds, cb \in UnsubCallbacks : MutSubscribe(id, cb)
    \/ \E id \in BusIds, cb \in UnsubCallbacks \cup {None} : MutUnsubscribe(id, cb)
    \/ \E m \in MutMessages(published + 1) : MutPublish(m)
    \/ DeliverPlain /\ UNCHANGED <<taskVars, dirVars, obsVars>>
    \/ PublishReturn /\ UNCHANGED <<taskVars, dirVars, obsVars>>

SpecMut == Init /\ [][NextMut]_vars

\* SpecWire: callers construct messages, serialize them and rebuild them
NextWire ==
    \/ \E m \in WireMessages : WireCreate(m)
    \/ WireToDict
    \/ \E uuid \in SecondUuids, now \in SecondNow : WireFromDict(uuid, now)

SpecWire == Init /\ [][NextWire]_vars

-----------------------------------------------------------------------------
(* AgentManager, and the agents it manages on the bus *)

AgentIds == {"a1", "a2"}
Handles == {"h1", "h2"}

\* AgentManager.register_agent, lines 20-29
RegisterKeepsFirst(ag, id, h) == IF id \in DOMAIN ag THEN ag ELSE Put(ag, id, h)
register_agent(ag, id, h) == Put(ag, id, h)

\* AgentManager.unregister_agent, lines 52-66: the table after the call and its return value
unregister_agent(ag, id) ==
    IF id \in DOMAIN ag
    THEN [agents |-> Del(ag, id), ret |-> TRUE]
    ELSE [agents |-> ag, ret |-> FALSE]

\* AgentManager.get_agent, lines 31-41
get_agent(ag, id) == IF id \in DOMAIN ag THEN ag[id] ELSE None

\* AgentManager.list_agents, lines 43-50
list_agents(ag) == DOMAIN ag

RegisterAgent(id, h) ==
    /\ stack = <<>>
    /\ agents' = register_agent(agents, id, h)
    /\ UNCHANGED <<busVars, taskVars, obsVars>>

UnregisterAgent(id) ==
    /\ stack = <<>>
    /\ agents' = unregister_agent(agents, id).agents
    /\ UNCHANGED <<busVars, taskVars, obsVars>>

\* a managed agent calls register_message_router (base_agent.py lines 36-45);
\* its handle_message returns
AgentRegisterRouter(id) ==
    /\ stack = <<>>
    /\ id \in DOMAIN agents
    /\ Registrations(subscribers) < MaxDirRegs
    /\ Subscribe(id, CbOk)
    /\ UNCHANGED <<taskVars, dirVars, obsVars>>

DirPublish(m) ==
    /\ stack = <<>>
    /\ published < MaxDirPublishes
    /\ PublishBegin(m)
    /\ UNCHANGED <<taskVars, dirVars, obsVars>>

DirMessages(id) ==
    {Message(id, "user", r, "notification", NoContent, NoCorrelation) :
        r \in AgentIds \cup {None}}

\* SpecDir: agents are registered with the manager, register with the router,
\* are unregistered, and callers publish between these calls
NextDir ==
    \/ \E id \in AgentIds, h \in Handles : RegisterAgent(id, h)
    \/ \E id \in AgentIds : UnregisterAgent(id)
    \/ \E id \in AgentIds : AgentRegisterRouter(id)
    \/ \E m \in DirMessages(published + 1) : DirPublish(m)
    \/ DeliverPlain /\ UNCHANGED <<taskVars, dirVars, obsVars>>
    \/ PublishReturn /\ UNCHANGED <<taskVars, dirVars, obsVars>>

SpecDir == Init /\ [][NextDir]_vars

-----------------------------------------------------------------------------
(* Properties of the message bus *)

\* a publish() call that has run its delivery loop to the end and is about to return
Returning(f) == f.executing = None /\ ~NextCall(f, subscribers).found

\* the ids a message is for, given the table s: its recipient, or every subscribed id
RecipientSet(m, s) ==
    IF m.recipient_id = None THEN SubIds(s) ELSE {m.recipient_id} \cap SubIds(s)

\* how many times the call f invoked registration i of id
Invocations(f, id, i) ==
    Cardinality({k \in DOMAIN f.invoked : f.invoked[k].id = id /\ f.invoked[k].i = i})

\* C1: a publish that is about to return has invoked each callback registered
\* under the message's recipient id (under every subscribed id for a message
\* without recipient) exactly once and no registration more than once,
\* whatever callbacks faulted, and carries no fault to its publisher.
C1_EachCallbackOnce ==
    (stack # <<>>) =>
        (Returning(Top) =>
            /\ ~Top.raised
            /\ \A id \in RecipientSet(Top.msg, Top.start) :
                  \A i \in DOMAIN SubList(Top.start, id) :
                     Invocations(Top, id, i) = 1
            /\ \A id \in SubIds(Top.start) :
                  \A i \in DOMAIN SubList(Top.start, id) :
                     Invocations(Top, id, i) <= 1
            /\ \A k \in DOMAIN Top.invoked :
                  /\ Top.invoked[k].id \in SubIds(Top.start)
                  /\ Top.invoked[k].i \in DOMAIN SubList(Top.start, Top.invoked[k].id)
                  /\ Top.invoked[k].cb = SubList(Top.start, Top.invoked[k].id)[Top.invoked[k].i])

\* a publish about to return that called a faulting callback and then another callback
C1_Witness ==
    /\ stack # <<>>
    /\ Returning(Top)
    /\ Len(Top.invoked) >= 2
    /\ Top.invoked[1].cb = CbFault
    /\ Top.invoked[2].cb = CbOk

\* C2: the history never holds more than max_history_size messages, whether
\* the publishes come from callers or from inside callbacks.
C2_HistoryBounded == Len(message_history) <= max_history_size

\* more messages were published than the history holds, and it is full
C2_Witness ==
    /\ published > max_history_size
    /\ stack = <<>>
    /\ Len(message_history) = max_history_size

\* ids of the messages a query returned
IdsOf(q) == {q[i].message_id : i \in DOMAIN q}
Evicted == 1..(published - max_history_size)
HistLimits == {NoLimit, Limit(0), Limit(1), Limit(max_history_size), Limit(max_history_size + 1)}
CorrelationIds == 1..published

\* C3: once more messages were published than the capacity, the history is
\* the last max_history_size messages in publish order, History(capacity)
\* returns them, and no History or HistoryByCorrelation query returns one of
\* the older messages.
C3_FifoEviction ==
    (published > max_history_size) =>
        /\ Len(message_history) = max_history_size
        /\ \A i \in 1..max_history_size :
              message_history[i].message_id = published - max_history_size + i
        /\ get_message_history(Limit(max_history_size)) = message_history
        /\ \A limit \in HistLimits : IdsOf(get_message_history(limit)) \cap Evicted = {}
        /\ \A c \in CorrelationIds : IdsOf(get_messages_by_correlation(c)) \cap Evicted = {}

\* the first message is evicted and a retained message carries its correlation id
C3_Witness ==
    /\ published > max_history_size
    /\ stack = <<>>
    /\ get_messages_by_correlation(1) # <<>>
    /\ 1 \notin IdsOf(message_history)

-----------------------------------------------------------------------------
(* Properties of the task lifecycle *)

HasResult(tk) == tk.result # NoValue
HasError(tk) == tk.error # NoValue

\* C4: a task has at most one of result and error set, and has one set only
\* when its status is terminal.
C4_ResultXorError ==
    \A t \in DOMAIN task :
        /\ ~(HasResult(task[t]) /\ HasError(task[t]))
        /\ (HasResult(task[t]) \/ HasError(task[t])) => Terminal(task[t].status)

\* C5: update_status on a task whose status is terminal leaves the task as it was.
C5_TerminalRejectsUpdate ==
    [][\A t \in DOMAIN task, s \in Statuses :
          (Terminal(task[t].status) /\ UpdateStatus(t, s)) => task'[t] = task[t]]_vars

\* C6: set_result on a FAILED task leaves the error, the unset result and the
\* status FAILED as they were.
C6_SetResultOnFailed ==
    [][\A t \in DOMAIN task :
          (task[t].status = "failed" /\ ~HasResult(task[t]) /\ SetResult(t, Val("r1")))
              => /\ task'[t].status = "failed"
                 /\ task'[t].error = task[t].error
                 /\ ~HasResult(task'[t])]_vars

\* C7: no step moves a task whose status is terminal to RUNNING.
C7_NoTerminalToRunning ==
    [][\A t \in DOMAIN task :
          Terminal(task[t].status) => task'[t].status # "running"]_vars

\* C8: a COMPLETED task got its status from set_result and carries the result
\* that call stored; a FAILED task got its status from set_error and carries
\* the error that call stored.
C8_CompletedOnlyBySetResult ==
    \A t \in DOMAIN task :
        /\ task[t].status = "completed" =>
              (task[t].by = "set_result" /\ task[t].result = task[t].arg)
        /\ task[t].status = "failed" =>
              (task[t].by = "set_error" /\ task[t].error = task[t].arg)

\* C8 (amended): a COMPLETED task got its status from set_result and carries
\* the result that call stored, or got it from a direct update_status call; a
\* FAILED task got its status from set_error and carries the error that call
\* stored, or got it from a direct update_status call.
C8_CompletedBySetResultOrUpdate ==
    \A t \in DOMAIN task :
        /\ task[t].status = "completed" =>
              \/ task[t].by = "set_result" /\ task[t].result = task[t].arg
              \/ task[t].by = "update_status"
        /\ task[t].status = "failed" =>
              \/ task[t].by = "set_error" /\ task[t].error = task[t].arg
              \/ task[t].by = "update_status"

\* a task completed by set_result after it had failed by set_error
C8_Witness ==
    \E t \in DOMAIN task :
        /\ task[t].status = "completed"
        /\ task[t].by = "set_result"
        /\ task[t].result = Val("r1")
        /\ HasError(task[t])

LegalEdges ==
    {<<"pending", "running">>, <<"running", "completed">>, <<"running", "failed">>,
     <<"pending", "cancelled">>, <<"running", "cancelled">>}

\* C9: every change of a task's status follows a legal edge of the lifecycle.
C9_LegalEdgesOnly ==
    [][\A t \in DOMAIN task :
          task'[t].status # task[t].status =>
              <<task[t].status, task'[t].status>> \in LegalEdges]_vars

-----------------------------------------------------------------------------
(* Properties of the executor *)

\* the RESULT message for task t from agent a that the delivery loop hands to
\* the executor next
ResultDue(t, a) ==
    /\ stack # <<>>
    /\ Top.executing = None
    /\ NextCall(Top, subscribers).found
    /\ Top.msg.message_type = "result"
    /\ Top.msg.content.task_id = t
    /\ Top.msg.sender_id = a

\* task t is running and active, both agents are tracked, b has delivered its
\* RESULT and a has not
AwaitingLast(t, a, b) ==
    /\ t \in DOMAIN task
    /\ task[t].status = "running"
    /\ t \in DOMAIN active_tasks
    /\ DOMAIN active_tasks[t].subtasks = {a, b}
    /\ active_tasks[t].subtasks[a].status = "pending"
    /\ active_tasks[t].subtasks[b].status = "completed"

\* C10: with task t running and both agents tracked, the delivery of the
\* second agent's RESULT makes t COMPLETED with the mapping of each agent to
\* its result, stores t, and removes t from the active table.
C10_BothResultsFinalize ==
    [][\A t \in OrchTaskIds, a \in Agents, b \in Agents :
          (a # b /\ AwaitingLast(t, a, b) /\ ResultDue(t, a) /\ DeliverExec) =>
              /\ task'[t].status = "completed"
              /\ task'[t].result =
                    Map([x \in {a, b} |->
                           IF x = a THEN Top.msg.content.payload
                           ELSE active_tasks[t].subtasks[b].result])
              /\ t \in tasks'
              /\ t \notin DOMAIN active_tasks']_vars

\* t1 finalized by the RESULTs of a1 and a2
C10_Witness ==
    /\ "t1" \in DOMAIN task
    /\ task["t1"].status = "completed"
    /\ task["t1"].result = Map([x \in Agents |-> IF x = "a1" THEN "r1" ELSE "r2"])
    /\ "t1" \in tasks
    /\ "t1" \notin DOMAIN active_tasks

\* the ERROR message for task t from agent a that the delivery loop hands to
\* the executor next
ErrorDue(t, a) ==
    /\ stack # <<>>
    /\ Top.executing = None
    /\ NextCall(Top, subscribers).found
    /\ Top.msg.message_type = "error"
    /\ Top.msg.content.task_id = t
    /\ Top.msg.sender_id = a

\* task t is running and active, both agents are tracked and b has not responded
BothTracked(t, a, b) ==
    /\ t \in DOMAIN task
    /\ task[t].status = "running"
    /\ t \in DOMAIN active_tasks
    /\ DOMAIN active_tasks[t].subtasks = {a, b}
    /\ active_tasks[t].subtasks[b].status = "pending"

\* task t was failed by the ERROR of agent a and is no longer active
FailedBy(t, a) ==
    /\ t \in DOMAIN task
    /\ t \notin DOMAIN active_tasks
    /\ task[t].status = "failed"
    /\ \E e \in Errors : task[t].error = SubtaskFailed(a, e)

\* C11: with task t running and both agents tracked, the delivery of an ERROR
\* from a before b responds makes t FAILED with the error naming a, stores t
\* and removes t from the active table; the delivery of b's RESULT after that
\* changes neither the task, the store nor the active table.
C11_ErrorFailsAtOnce ==
    [][\A t \in OrchTaskIds, a \in Agents, b \in Agents :
          /\ (a # b /\ BothTracked(t, a, b) /\ ErrorDue(t, a) /\ DeliverExec) =>
                /\ task'[t].status = "failed"
                /\ task'[t].error = SubtaskFailed(a, Top.msg.content.payload)
                /\ task'[t].result = task[t].result
                /\ t \in tasks'
                /\ t \notin DOMAIN active_tasks'
          /\ (a # b /\ FailedBy(t, a) /\ ResultDue(t, b) /\ DeliverExec) =>
                /\ task'[t] = task[t]
                /\ tasks' = tasks
                /\ active_tasks' = active_tasks]_vars

\* t1 failed by the ERROR of a1, and the RESULT of a2 has been handed to the executor
C11_Witness ==
    /\ FailedBy("t1", "a1")
    /\ ~HasResult(task["t1"])
    /\ "t1" \in tasks
    /\ stack # <<>>
    /\ Top.msg.message_type = "result"
    /\ Top.msg.sender_id = "a2"
    /\ Top.msg.content.task_id = "t1"
    /\ Len(Top.invoked) = 1

\* C12: the delivery of a RESULT for an active task completes it only if every
\* tracked subtask is then completed; while another tracked subtask is still
\* pending the task stays as it was, RUNNING and in the active table.
C12_FinalizeOnlyWhenAllCompleted ==
    [][\A t \in OrchTaskIds, a \in Agents :
          (t \in DOMAIN active_tasks /\ ResultDue(t, a) /\ DeliverExec) =>
              LET subs == active_tasks[t].subtasks
                  pending == {x \in DOMAIN subs \ {a} : subs[x].status # "completed"}
              IN  /\ (pending # {} /\ task[t].status = "running") =>
                        /\ task'[t] = task[t]
                        /\ t \in DOMAIN active_tasks'
                        /\ DOMAIN active_tasks'[t].subtasks = DOMAIN subs
                  /\ (task'[t] # task[t]) =>
                        /\ pending = {}
                        /\ task'[t].status = "completed"]_vars

\* t1 is running and active, a1 has delivered its RESULT and a2 is still pending
C12_Witness ==
    /\ "t1" \in DOMAIN active_tasks
    /\ task["t1"].status = "running"
    /\ ~HasResult(task["t1"])
    /\ DOMAIN active_tasks["t1"].subtasks = Agents
    /\ active_tasks["t1"].subtasks["a1"].status = "completed"
    /\ active_tasks["t1"].subtasks["a2"].status = "pending"

\* the execute_task of t whose delegation raised has returned
FailedByFault(t) ==
    /\ task'[t].status = "failed"
    /\ task'[t].error = ExecutionError("fault")
    /\ task'[t].by = "set_error"
    /\ t \in tasks'
    /\ t \notin DOMAIN active_tasks'

\* C13: when the delegation of execute_task raises, execute_task returns with
\* the task FAILED with the error describing the fault, stored, and out of
\* the active table; the fault does not leave execute_task and the task is
\* not executed again.
C13_DelegationFault ==
    [][/\ \A t \in OrchTaskIds :
             BgExecuteEnd(t, "raises") => (FailedByFault(t) /\ t \notin bg_exec')
       /\ (stack # <<>> /\ ExecuteReturn("raises")) =>
             /\ FailedByFault(Top.executing)
             /\ stack'[Len(stack)].executing = None
             /\ ~stack'[Len(stack)].raised
             /\ Len(stack') = Len(stack)]_vars

\* t1 failed by a fault of the delegation
C13_Witness ==
    /\ "t1" \in DOMAIN task
    /\ task["t1"].status = "failed"
    /\ task["t1"].error = ExecutionError("fault")
    /\ "t1" \in tasks
    /\ "t1" \notin DOMAIN active_tasks
    /\ "t1" \notin bg_exec

-----------------------------------------------------------------------------
(* Properties of the agent manager *)

\* the delivery loop of a broadcast calls a callback of id in this step
BroadcastCalls(id) ==
    /\ stack # <<>>
    /\ Top.msg.recipient_id = None
    /\ DeliverPlain
    /\ Top.recipients[NextCall(Top, subscribers).ri] = id

\* C14: once an agent id that had two subscriptions is unregistered, a
\* broadcast calls no callback of that id.
C14_UnregisterRemovesSubscriptions ==
    [][\A id \in AgentIds :
          (id \notin DOMAIN agents /\ BroadcastCalls(id)) =>
              Len(SubList(subscribers, id)) # 2]_vars

-----------------------------------------------------------------------------
(* Properties of routing and of the history queries *)

\* the message of call f names a recipient that had no subscription when f began
UnknownRecipient(f) ==
    /\ f.msg.recipient_id # None
    /\ f.msg.recipient_id \notin SubIds(f.start)

\* C15: a publish to a recipient id without subscription calls no callback,
\* has none left to call, carries no fault and leaves the subscriber table as
\* it found it.
C15_UnknownRecipientSilent ==
    \A k \in DOMAIN stack :
        UnknownRecipient(stack[k]) =>
            /\ stack[k].invoked = <<>>
            /\ ~stack[k].raised
            /\ ~NextCall(stack[k], subscribers).found
            /\ subscribers = stack[k].start

\* positions of the history whose message carries correlation id c
Correlated(c) == {k \in DOMAIN message_history : message_history[k].correlation_id = c}
PosIn(h, m) == CHOOSE k \in DOMAIN h : h[k] = m
QueriedCorrelations == 1..(published + 1)

\* C16: for every correlation id c, HistoryByCorrelation(c) holds exactly the
\* retained messages whose correlation id is c, each once, in the order they
\* have in History().
C16_ByCorrelationSubsequence ==
    \A c \in QueriedCorrelations :
        LET r == get_messages_by_correlation(c)
            h == get_message_history(NoLimit)
        IN  /\ Len(r) = Cardinality(Correlated(c))
            /\ \A i \in DOMAIN r :
                  /\ r[i].correlation_id = c
                  /\ \E k \in Correlated(c) : h[k] = r[i]
            /\ \A i, j \in DOMAIN r : i < j => PosIn(h, r[i]) < PosIn(h, r[j])

\* two retained messages share correlation id 1 and another one does not
C16_Witness ==
    /\ Len(get_messages_by_correlation(1)) = 2
    /\ Len(message_history) > 2
    /\ message_history[2].correlation_id # 1

\* the last n messages of the history, or all of them when there are fewer
MostRecent(n) ==
    LET len == Len(message_history)
    IN  IF n >= len THEN message_history ELSE SubSeq(message_history, len - n + 1, len)
SuppliedLimits == 0..(published + 1)

\* C17: for every limit n supplied, 0 and limits above the number of retained
\* messages included, History(n) is the most recent min(n, retained) messages
\* in publish order, and History() without limit is all retained messages.
C17_HistoryLimit ==
    /\ get_message_history(NoLimit) = message_history
    /\ \A n \in SuppliedLimits : get_message_history(Limit(n)) = MostRecent(n)

-----------------------------------------------------------------------------
(* Properties of unsubscribe *)

\* every callback a publish in progress has called is a registration of the table
InvokedAreRegistered ==
    \A k \in DOMAIN stack :
        \A n \in DOMAIN stack[k].invoked :
            LET e == stack[k].invoked[n]
            IN  /\ e.id \in SubIds(subscribers)
                /\ e.i \in DOMAIN SubList(subscribers, e.id)
                /\ SubList(subscribers, e.id)[e.i] = e.cb

\* the table t holds the ids of s other than id, in their order, with their lists
OthersKept(s, t, id) ==
    /\ SubKeys(t) = SelectSeq(SubKeys(s), LAMBDA x : x # id)
    /\ \A o \in SubIds(s) \ {id} : SubList(t, o) = SubList(s, o)

\* C18: unsubscribe(id) without callback removes id and all its callbacks
\* from the table, keeps the other ids with their callbacks and the history;
\* on an id without subscription unsubscribe changes nothing; and a publish
\* calls only callbacks the table holds.
C18_UnsubscribeAll ==
    [][/\ \A id \in BusIds :
             UnsubUnsubscribe(id, None) =>
                 /\ id \notin SubIds(subscribers')
                 /\ OthersKept(subscribers, subscribers', id)
                 /\ message_history' = message_history
       /\ \A id \in BusIds \ SubIds(subscribers), cb \in UnsubCallbacks \cup {None} :
             UnsubUnsubscribe(id, cb) => UNCHANGED busVars
       /\ InvokedAreRegistered']_vars

\* a1's two callbacks were removed by unsubscribe("a1"), and the broadcast
\* published after that has called the callback of a2 only
C18_Witness ==
    /\ last_unsubscribe = [id |-> "a1", cb |-> None, found |-> 2]
    /\ SubIds(subscribers) = {"a2"}
    /\ stack # <<>>
    /\ Returning(Top)
    /\ Top.msg.recipient_id = None
    /\ Len(Top.invoked) = 1

Count(q, x) == Cardinality({i \in DOMAIN q : q[i] = x})
ListOf(s, id) == IF id \in SubIds(s) THEN SubList(s, id) ELSE <<>>

\* C19: unsubscribe(id, callback) removes exactly one registration of callback
\* under id; the other registrations under id, a further registration of the
\* same callback included, and those of other ids stay.
C19_UnsubscribeOne ==
    [][\A id \in BusIds, cb \in UnsubCallbacks :
          (Count(ListOf(subscribers, id), cb) >= 1 /\ UnsubUnsubscribe(id, cb)) =>
              /\ Count(ListOf(subscribers', id), cb) = Count(ListOf(subscribers, id), cb) - 1
              /\ \A c \in UnsubCallbacks \ {cb} :
                    Count(ListOf(subscribers', id), c) = Count(ListOf(subscribers, id), c)
              /\ \A o \in SubIds(subscribers) \ {id} :
                    ListOf(subscribers', o) = ListOf(subscribers, o)]_vars

-----------------------------------------------------------------------------
(* Properties of the recipient set *)

Range(q) == {q[i] : i \in DOMAIN q}

\* C20: a publish of a message with a recipient iterates over that recipient
\* only and calls no callback of another id; a publish of a message without
\* recipient iterates over the ids subscribed when it began.
C20_RecipientSet ==
    \A k \in DOMAIN stack :
        LET f == stack[k]
        IN  IF f.msg.recipient_id # None
            THEN /\ Range(f.recipients) \subseteq {f.msg.recipient_id}
                 /\ \A n \in DOMAIN f.invoked : f.invoked[n].id = f.msg.recipient_id
            ELSE Range(f.recipients) = SubIds(f.start)

-----------------------------------------------------------------------------
(* Properties of delivery while the subscriber table changes *)

\* the registrations [id, i, cb] the table s holds under the ids of ids
RegistrationsOf(s, ids) ==
    UNION {{[id |-> id, i |-> i, cb |-> SubList(s, id)[i]] : i \in DOMAIN SubList(s, id)} :
              id \in ids \cap SubIds(s)}

\* C21: the callbacks a publish has invoked when it returns are exactly the
\* registrations the table held for the message's recipient set when the
\* publish began, whatever was subscribed or unsubscribed during the delivery.
C21_SnapshotDelivery ==
    \A k \in DOMAIN stack :
        (k = Len(stack) /\ Returning(stack[k])) =>
            Range(stack[k].invoked) =
                RegistrationsOf(stack[k].start, RecipientSet(stack[k].msg, stack[k].start))

-----------------------------------------------------------------------------
(* Properties of deliveries that meet an execution in progress *)

\* the last write of the task's status was a set_result or a set_error
Finalized(tk) == tk.by \in {"set_result", "set_error"}

\* C22: an execution of a task is finalized at most once: once set_result or
\* set_error has taken effect, the next write of the task is the
\* update_status of a new execution or of a caller, never a second set_result
\* or set_error, and no handler meets a missing entry of the active table.
C22_FinalizedOnce ==
    [][\A t \in DOMAIN task :
          /\ (Finalized(task[t]) /\ task'[t] # task[t]) => ~Finalized(task'[t])
          /\ task'[t].error # ExecutionError("KeyError")]_vars

\* the executor handles, in this step, a RESULT or ERROR message for task t
HandlesOutcomeFor(t) ==
    \E m \in OrchMessages(0, {t}) :
        /\ m.message_type \in {"result", "error"}
        /\ HandleDirect(m)

\* C23: handling a RESULT or ERROR message for a task leaves every other
\* task's object (status, result, error), its stored copy, its entry in the
\* active table and its subtask tracking map as they were.
C23_OtherTasksUntouched ==
    [][\A t1 \in TaskIds :
          HandlesOutcomeFor(t1) =>
              \A t2 \in DOMAIN task \ {t1} :
                  /\ task'[t2] = task[t2]
                  /\ (t2 \in tasks') = (t2 \in tasks)
                  /\ (t2 \in DOMAIN active_tasks') = (t2 \in DOMAIN active_tasks)
                  /\ (t2 \in DOMAIN active_tasks) => active_tasks'[t2] = active_tasks[t2]]_vars

\* t1 was completed by the RESULT of its one tracked agent while t2 stays
\* running, stored and active with a1 done and a2 pending
C23_Witness ==
    /\ DOMAIN task = TaskIds
    /\ task["t1"].status = "completed"
    /\ task["t1"].result = Map([x \in {"a1"} |-> "r1"])
    /\ "t1" \notin DOMAIN active_tasks
    /\ task["t2"].status = "running"
    /\ "t2" \in tasks
    /\ "t2" \in DOMAIN active_tasks
    /\ DOMAIN active_tasks["t2"].subtasks = Agents
    /\ active_tasks["t2"].subtasks["a1"].status = "completed"
    /\ active_tasks["t2"].subtasks["a2"].status = "pending"

\* C24: once a caller has set an active task to CANCELLED, the delivery of a
\* RESULT or ERROR for it leaves its status CANCELLED and attaches neither a
\* result nor an error to it.
C24_CancelledStaysCancelled ==
    [][\A t \in OrchTaskIds, a \in Agents :
          (/\ t \in DOMAIN active_tasks
           /\ task[t].status = "cancelled"
           /\ (ResultDue(t, a) \/ ErrorDue(t, a))
           /\ DeliverExec) =>
              /\ task'[t].status = "cancelled"
              /\ task'[t].result = task[t].result
              /\ task'[t].error = task[t].error]_vars

-----------------------------------------------------------------------------
(* Properties of the task tree and of the task store *)

\* the ids in the list of subtasks of task t
Children(t) == Range(task[t].subtasks)

\* C25: a task whose status is COMPLETED, FAILED or CANCELLED has only
\* subtasks with a terminal status in its list of subtasks.
C25_TerminalOnlyAfterChildren ==
    \A t \in DOMAIN task :
        Terminal(task[t].status) =>
            \A c \in Children(t) : Terminal(task[c].status)

\* the store after the step
OrchAfter == [task |-> task', tasks |-> tasks', active_tasks |-> active_tasks']

\* C26: create_task(description, user_id, metadata) stores exactly one new
\* task, under an id no stored task has; the task is PENDING, carries the
\* description, the user and the metadata given (an empty mapping when none
\* is given), no result and no error; get_task of its id returns it, and
\* get_task of every id stored before returns the task it returned before.
C26_CreateStoresNewTask ==
    [][\A d \in Descriptions, u \in UserIds, md \in Metadata :
          CreateTaskWith(d, u, md) =>
              /\ Cardinality(tasks' \ tasks) = 1
              /\ \A id \in tasks' \ tasks :
                    /\ id \notin DOMAIN task
                    /\ get_task(OrchAfter, id) = task'[id]
                    /\ task'[id].task_id = id
                    /\ task'[id].status = "pending"
                    /\ task'[id].description = d
                    /\ task'[id].user_id = u
                    /\ task'[id].metadata = (IF md = NoValue THEN EmptyDict ELSE md)
                    /\ ~HasResult(task'[id])
                    /\ ~HasError(task'[id])
              /\ \A t \in tasks :
                    /\ t \in tasks'
                    /\ get_task(OrchAfter, t) = get_task(Orch, t)]_vars

\* t1 is stored and running, and t2 was created after it with a description,
\* a user and metadata of its own
C26_Witness ==
    /\ tasks = {"t1", "t2"}
    /\ task["t1"].status = "running"
    /\ task["t1"].description = "d1"
    /\ task["t2"] = TaskInit("t2", "d2", "u1", Map([k |-> "v"]))

\* the step leaves the id, the description, the parent and the subtasks of t alone
IdentityKept(t) ==
    /\ task'[t].task_id = task[t].task_id
    /\ task'[t].description = task[t].description
    /\ task'[t].parent_task_id = task[t].parent_task_id
    /\ task'[t].subtasks = task[t].subtasks

\* C27: on a task whose status is not terminal, update_status(s) sets the
\* status to s, set_result(v) stores v as the result and sets the status to
\* COMPLETED, set_error(e) stores e as the error and sets the status to
\* FAILED; each leaves the id, the description, the parent and the list of
\* subtasks as they were.
C27_StatusMethods ==
    [][\A t \in DOMAIN task :
          ~Terminal(task[t].status) =>
              /\ \A st \in Statuses :
                    UpdateStatus(t, st) => (task'[t].status = st /\ IdentityKept(t))
              /\ SetResult(t, Val("r1")) =>
                    /\ task'[t].result = Val("r1")
                    /\ task'[t].status = "completed"
                    /\ IdentityKept(t)
              /\ SetError(t, Val("e1")) =>
                    /\ task'[t].error = Val("e1")
                    /\ task'[t].status = "failed"
                    /\ IdentityKept(t)]_vars

\* t2, subtask of t1 and parent of t3, went from PENDING to FAILED by set_error
C27_Witness ==
    /\ DOMAIN task = TreeTaskIds
    /\ task["t2"].parent_task_id = "t1"
    /\ task["t2"].subtasks = <<"t3">>
    /\ task["t2"].updated_at = 1
    /\ task["t2"].by = "set_error"
    /\ task["t2"].status = "failed"
    /\ task["t2"].error = Val("e1")
    /\ ~HasResult(task["t2"])

\* every task in a list of subtasks names the owner of the list as its parent
ChildrenNameParent(tm) ==
    \A p \in DOMAIN tm :
        \A c \in Range(tm[p].subtasks) : tm[c].parent_task_id = tm[p].task_id

\* C28: p.add_subtask(c) sets the parent of c to the id of p and appends c to
\* the subtasks of p behind the earlier ones; and after every add_subtask call
\* each task in a list of subtasks has the owner of the list as its parent.
C28_AddSubtask ==
    [][\A e \in TreeEdges :
          AddSubtask(e[1], e[2]) =>
              /\ task'[e[2]].parent_task_id = task[e[1]].task_id
              /\ task'[e[1]].subtasks = Append(task[e[1]].subtasks, e[2])
              /\ ChildrenNameParent(task')]_vars

-----------------------------------------------------------------------------
(* Properties of the agent directory *)

\* get_agent answers on the table after for the ids other than id as on ag
OtherAgentsKept(ag, after, id) ==
    \A o \in AgentIds \ {id} : get_agent(after, o) = get_agent(ag, o)

\* C29: on every table the directory reaches, register_agent(id, h) makes
\* get_agent(id) return h, whatever was registered under id before, and adds
\* id to list_agents; unregister_agent(id) makes get_agent(id) return None,
\* removes id from list_agents and returns whether id was registered; both
\* leave the other ids alone, and list_agents is the set of ids for which
\* get_agent returns an agent.
C29_DirectoryLastWriteWins ==
    /\ \A id \in AgentIds, h \in Handles :
          LET after == register_agent(agents, id, h)
          IN  /\ get_agent(after, id) = h
              /\ list_agents(after) = list_agents(agents) \cup {id}
              /\ OtherAgentsKept(agents, after, id)
    /\ \A id \in AgentIds :
          LET call == unregister_agent(agents, id)
          IN  /\ get_agent(call.agents, id) = None
              /\ list_agents(call.agents) = list_agents(agents) \ {id}
              /\ call.ret = (get_agent(agents, id) # None)
              /\ OtherAgentsKept(agents, call.agents, id)
    /\ list_agents(agents) = {id \in AgentIds : get_agent(agents, id) # None}

\* a1 is registered with handle h2; a2 was registered, subscribed to the
\* router and then unregistered
C29_Witness ==
    /\ list_agents(agents) = {"a1"}
    /\ get_agent(agents, "a1") = "h2"
    /\ get_agent(agents, "a2") = None
    /\ "a2" \in SubIds(subscribers)

-----------------------------------------------------------------------------
(* Properties of the dictionary form of a message *)

-----------------------------------------------------------------------------
(* Properties of execute_task and of the handling of messages *)

\* the executor handles, in this step, a TASK message for task t
HandlesTaskFor(t) ==
    \E m \in OrchMessages(0, {t}) :
        /\ m.message_type = "task"
        /\ HandleDirect(m)

\* execute_task(t) enters the delegation in this step
DelegationBegins(t) == BgExecuteBegin(t) \/ HandlesTaskFor(t)

\* C31: at the moment the delegation of execute_task(t) begins, t is RUNNING,
\* get_task returns it, and its entry of the active table exists with an
\* empty subtask map.
C31_RunningBeforeDelegation ==
    [][\A t \in OrchTaskIds :
          DelegationBegins(t) =>
              /\ task'[t].status = "running"
              /\ get_task(OrchAfter, t) = task'[t]
              /\ t \in DOMAIN active_tasks'
              /\ active_tasks'[t].subtasks = EmptyMap]_vars

\* t1, executed before and failed, is inside the delegation of a new
\* execution, running, stored and active without subtasks
C31_Witness ==
    /\ "t1" \in bg_exec
    /\ HasError(task["t1"])
    /\ task["t1"].status = "running"
    /\ "t1" \in tasks
    /\ active_tasks["t1"].subtasks = EmptyMap

\* the delivery loop hands a RESULT or ERROR message to the executor next,
\* and the message names no task of the active table
UntrackedDue ==
    /\ stack # <<>>
    /\ Top.executing = None
    /\ NextCall(Top, subscribers).found
    /\ Top.msg.message_type \in {"result", "error"}
    /\ Top.msg.content.task_id \notin DOMAIN active_tasks

\* C32: the delivery of a RESULT or ERROR message that names no task of the
\* active table (an unknown id, a task not or no longer active, no id at
\* all) changes no task, neither the store nor the active table, and leaves
\* no fault in the publish call.
C32_UntrackedDiscarded ==
    [][(UntrackedDue /\ DeliverExec) =>
          /\ task' = task
          /\ tasks' = tasks
          /\ active_tasks' = active_tasks
          /\ bg_exec' = bg_exec
          /\ ~stack'[Len(stack)].raised
          /\ Len(stack'[Len(stack)].invoked) = Len(Top.invoked) + 1]_vars

\* a RESULT naming t1 was handed to the executor after the execution of t1
\* had ended with the task FAILED, and the publish is about to return
C32_Witness ==
    /\ stack # <<>>
    /\ Returning(Top)
    /\ Len(Top.invoked) = 1
    /\ Top.msg.message_type = "result"
    /\ Top.msg.content.task_id = "t1"
    /\ "t1" \in tasks
    /\ "t1" \notin DOMAIN active_tasks
    /\ task["t1"].status = "failed"
    /\ ~HasResult(task["t1"])

\* the executor handles, in this step, the RESULT message of agent a for
\* the active task t with result r
HandlesResult(t, a, r) ==
    /\ t \in DOMAIN active_tasks
    /\ HandleDirect(Message(0, a, ExecutorId, "result",
                            [task_id |-> t, payload |-> r], NoCorrelation))

\* C33: handling the RESULT of agent a for an active task records the result
\* as completed under a, whether or not a was tracked: in the subtask map
\* when the task stays active, in the final result mapping when the message
\* finalizes it.
C33_ResultRecordedForSender ==
    [][\A t \in OrchTaskIds, a \in Agents, r \in Results :
          HandlesResult(t, a, r) =>
              IF t \in DOMAIN active_tasks'
              THEN /\ a \in DOMAIN active_tasks'[t].subtasks
                   /\ active_tasks'[t].subtasks[a].status = "completed"
                   /\ active_tasks'[t].subtasks[a].result = r
              ELSE /\ task'[t].result.kind = "map"
                   /\ a \in DOMAIN task'[t].result.m
                   /\ task'[t].result.m[a] = r]_vars

\* the tracked agents of t other than a that have not completed
OthersPending(t, a) ==
    {x \in DOMAIN active_tasks[t].subtasks \ {a} :
        active_tasks[t].subtasks[x].status # "completed"}

\* C34: the delivery of a RESULT of a tracked agent a for the active task t
\* leaves one entry for a, holding this result and replacing an earlier one;
\* while another tracked agent is pending the task stays as it was and
\* active, with the same agents tracked; otherwise it is finalized with a
\* mapping that has exactly the tracked agents as keys and this result for a.
C34_LastResultWins ==
    [][\A t \in OrchTaskIds, a \in Agents :
          (/\ t \in DOMAIN active_tasks
           /\ ResultDue(t, a)
           /\ a \in DOMAIN active_tasks[t].subtasks
           /\ DeliverExec) =>
              IF OthersPending(t, a) # {}
              THEN /\ task'[t] = task[t]
                   /\ t \in DOMAIN active_tasks'
                   /\ DOMAIN active_tasks'[t].subtasks = DOMAIN active_tasks[t].subtasks
                   /\ active_tasks'[t].subtasks[a].status = "completed"
                   /\ active_tasks'[t].subtasks[a].result = Top.msg.content.payload
              ELSE /\ t \notin DOMAIN active_tasks'
                   /\ task'[t].status = "completed"
                   /\ DOMAIN task'[t].result.m = DOMAIN active_tasks[t].subtasks
                   /\ task'[t].result.m[a] = Top.msg.content.payload]_vars

\* a1 sent r1 and then r2 while a2 was pending, then a2 sent r1: t1 is
\* completed with r2 for a1 and r1 for a2
C34_Witness ==
    /\ Len(message_history) = 3
    /\ message_history[1].sender_id = "a1"
    /\ message_history[1].content.payload = "r1"
    /\ message_history[2].sender_id = "a1"
    /\ message_history[2].content.payload = "r2"
    /\ message_history[3].sender_id = "a2"
    /\ "t1" \in DOMAIN task
    /\ task["t1"].status = "completed"
    /\ task["t1"].result = Map([x \in Agents |-> IF x = "a1" THEN "r2" ELSE "r1"])

\* an operation of the executor returns in this step: execute_task, or the
\* handling of a RESULT or ERROR message
ExecutorReturns ==
    \/ \E t \in OrchTaskIds, oc \in Outcomes : BgExecuteEnd(t, oc)
    \/ \E oc \in Outcomes : ExecuteReturn(oc)
    \/ /\ stack # <<>>
       /\ Top.msg.message_type \in {"result", "error"}
       /\ DeliverExec

\* C35: when an operation of the executor returns, every task has an entry
\* in the active table exactly when its status is RUNNING: no task is RUNNING
\* without an entry, and no task with a terminal status has one.
C35_ActiveIffRunning ==
    [][ExecutorReturns =>
          \A t \in DOMAIN task' :
              (t \in DOMAIN active_tasks') <=> (task'[t].status = "running")]_vars

\* C36: the delivery of a RESULT message for an active task whose subtask
\* map is empty finalizes the task at once, whoever the sender is: the task
\* is COMPLETED with the empty result mapping, stored, and no longer active.
C36_EmptyMapFinalizes ==
    [][\A t \in OrchTaskIds, a \in Agents :
          (/\ t \in DOMAIN active_tasks
           /\ ResultDue(t, a)
           /\ active_tasks[t].subtasks = EmptyMap
           /\ DeliverExec) =>
              /\ task'[t].status = "completed"
              /\ task'[t].result = Map(EmptyMap)
              /\ t \in tasks'
              /\ t \notin DOMAIN active_tasks']_vars

\* execute_task(t1) is still inside initiate_chat and t1, whose map was
\* empty, has been finalized by the RESULT of a2 with the empty mapping
C36_Witness ==
    /\ "t1" \in bg_exec
    /\ "t1" \notin DOMAIN active_tasks
    /\ Len(message_history) = 1
    /\ message_history[1].sender_id = "a2"
    /\ task["t1"].status = "completed"
    /\ task["t1"].result = Map(EmptyMap)

\* C37: when the delegation of an execution of t (started by execute_task or
\* by a TASK message naming the stored t) returns or raises, execute_task
\* leaves t in the terminal status it sets itself: COMPLETED when the
\* delegation produced a final message of the executor, FAILED when it
\* produced none or raised; t is stored and is not in the active table.
C37_ExecuteEndsTerminal ==
    [][\A t \in OrchTaskIds, oc \in Outcomes :
          BgExecuteEnd(t, oc) =>
              /\ task'[t].status = IF oc = "final" THEN "completed" ELSE "failed"
              /\ t \in tasks'
              /\ t \notin DOMAIN active_tasks']_vars

-----------------------------------------------------------------------------
(* Properties of the order of delivery *)

\* the publish() call at depth k of the stack invokes registration c in this step
Invokes(k, c) ==
    /\ k \in DOMAIN stack
    /\ k \in DOMAIN stack'
    /\ stack'[k].msg = stack[k].msg
    /\ Len(stack'[k].invoked) = Len(stack[k].invoked) + 1
    /\ c = stack'[k].invoked[Len(stack'[k].invoked)]

\* C38: a registered callback that is invoked for two messages is invoked
\* for them in the order of the history, also when the later message was
\* published by a callback from inside the delivery of the earlier one: a
\* callback the delivery of a message invokes has not been invoked before
\* for a message published from inside that delivery.
C38_HistoryOrder ==
    [][\A k \in 1..MaxDepth :
          k \in DOMAIN stack =>
              \A c \in stack[k].nested : ~Invokes(k, c)]_vars

-----------------------------------------------------------------------------
(* Properties of a repeated execution and of deletion *)

\* execute_task(t) starts in this step: as a background task, or called by
\* handle_message for a TASK message naming the stored task t
ExecuteStarts(t) ==
    \/ BgExecuteBegin(t)
    \/ /\ stack # <<>>
       /\ Top.msg.message_type = "task"
       /\ Top.msg.content.task_id = t
       /\ t \in tasks
       /\ DeliverExec

\* C39: the active table is keyed by task id, so it holds one entry per
\* task; an execute_task that starts for a task which has an entry replaces
\* the entry by a fresh one with an empty subtask map, whatever outcomes
\* the old one held, and adds no entry.
C39_ExecuteReplacesEntry ==
    [][\A t \in OrchTaskIds :
          (t \in DOMAIN active_tasks /\ ExecuteStarts(t)) =>
              /\ DOMAIN active_tasks' = DOMAIN active_tasks
              /\ active_tasks'[t].subtasks = EmptyMap
              /\ task'[t].status = "running"]_vars

\* while the background execution of t1 was in progress and had not been
\* finalized, a1's RESULT and then a TASK message for t1 were delivered:
\* the execution started by the TASK message is inside initiate_chat and the
\* subtask map of t1 is empty
C39_Witness ==
    /\ "t1" \in bg_exec
    /\ Len(message_history) = 2
    /\ message_history[1].message_type = "result"
    /\ message_history[1].sender_id = "a1"
    /\ message_history[2].message_type = "task"
    /\ stack # <<>>
    /\ Top.executing = "t1"
    /\ task["t1"].updated_at = 2
    /\ ~HasResult(task["t1"])
    /\ active_tasks["t1"].subtasks = EmptyMap

\* an id no task was created with
UnknownTaskId == "t9"

\* C40: delete_task(id) returns true exactly when a task is stored under id
\* and get_task(id) is absent afterwards; it leaves the task object and the
\* active table as they are, and when a deleted task that is still active
\* is finalized (by a RESULT, an ERROR or the end of execute_task) it is
\* stored again.
C40_DeletedActiveReappears ==
    /\ [](\A id \in OrchTaskIds \cup {UnknownTaskId} :
             LET d == delete_task(Orch, id)
             IN  /\ d.ret = (id \in tasks)
                 /\ get_task(d.o, id) = NoValue
                 /\ d.o.task = task
                 /\ d.o.active_tasks = active_tasks)
    /\ [][\A t \in OrchTaskIds :
             (/\ t \in DOMAIN active_tasks
              /\ t \notin tasks
              /\ t \notin DOMAIN active_tasks') =>
                 /\ t \in tasks'
                 /\ get_task([task |-> task', tasks |-> tasks',
                              active_tasks |-> active_tasks'], t) = task'[t]
                 /\ task'[t].status \in {"completed", "failed"}]_vars

\* t1 was deleted while its execution is inside initiate_chat: it is not
\* stored, and it is RUNNING with its entry in the active table
C40_Witness ==
    /\ "t1" \in bg_exec
    /\ "t1" \notin tasks
    /\ "t1" \in DOMAIN active_tasks
    /\ task["t1"].status = "running"
    /\ get_task(Orch, "t1") = NoValue

====
